---- MODULE Spec2Model ----
(***************************************************************************)
(* ClipFile backend (src/app/main.py): the upload pipeline, the progress   *)
(* and download endpoints, the highlight-window selector pick_best_window  *)
(* and the caption builder build_ass.                                      *)
(*                                                                         *)
(* Times are integers counted in ticks, Scale ticks to the second, so that *)
(* fractional word timestamps and media durations are representable.       *)
(* Scores are kept as exact fractions num/den (num in half points, den in  *)
(* ticks) and compared by cross-multiplication; the floats of the code     *)
(* represent the sums 1.0/3.0/1.5 exactly and a correctly rounded quotient *)
(* orders two such fractions as the fractions themselves are ordered.      *)
(***************************************************************************)
EXTENDS Integers, Sequences, FiniteSets, TLC

(***************************************************************************)
(* Program constants                                                       *)
(***************************************************************************)
MIN_CLIP == 20
MAX_CLIP == 30
MAX_WORDS_ON_SCREEN == 2

(***************************************************************************)
(* Bounds of the model                                                     *)
(***************************************************************************)
Scale == 2          \* ticks per second
MaxSelWords == 2    \* longest word list given to pick_best_window
MaxSlot == 2        \* its word timestamps are SlotStride * (0..MaxSlot) ticks
SlotStride == 27    \* distance between two such timestamps, in ticks
MaxTotal == 15      \* its media durations are DurStride * (0..MaxTotal) ticks
DurStride == 5      \* distance between two media durations, in ticks
MaxCapWords == 4    \* longest word list given to build_ass
MaxCapT == 3        \* its timestamps and window bounds are 0..MaxCapT ticks
MaxTsHours == 1     \* the times given to ts_ass have 0..MaxTsHours whole hours

\* job ids (uuid4 strings in the code)
Jobs == {"job-a", "job-b"}

Last(sq) == sq[Len(sq)]

Max(a, b) == IF a >= b THEN a ELSE b
Min(a, b) == IF a <= b THEN a ELSE b

(***************************************************************************)
(* Words: {"word": text, "start": t, "end": t}.  The texts are drawn from  *)
(* a vocabulary on which lower() and the substring tests of score_window   *)
(* are tabulated.                                                          *)
(***************************************************************************)
Vocabulary == {"hola", "jaja", "wow!", "LOL!"}

\* str.lower()
Lower(txt) == IF txt = "LOL!" THEN "lol!" ELSE txt

\* any(x in txt for x in ["ja", "ha", "lol", "laugh"])
HasLaugh(txt) == txt \in {"jaja", "lol!"}

\* "!" in txt
HasBang(txt) == txt \in {"wow!", "lol!", "LOL!"}

SlotTimes == {SlotStride * k : k \in 0..MaxSlot}
TotalDurs == {DurStride * k : k \in 0..MaxTotal}

\* only w["end"] < start_t: words that begin after the window are counted
OutsideEndOnly(w, start_t, end_t) == w.end < start_t

\* w["end"] < start_t or w["start"] > end_t  (the word is skipped)
Outside(w, start_t, end_t) == w.end < start_t \/ w.start > end_t

\* the contribution of one word to the score, in half points
WordScore(w) ==
    LET txt == Lower(w.word)
    IN  2 + (IF HasLaugh(txt) THEN 6 ELSE 0) + (IF HasBang(txt) THEN 3 ELSE 0)

RECURSIVE SumScore(_, _, _, _)
SumScore(words, i, start_t, end_t) ==
    IF i > Len(words) THEN 0
    ELSE (IF Outside(words[i], start_t, end_t) THEN 0 ELSE WordScore(words[i]))
         + SumScore(words, i + 1, start_t, end_t)

\* score / max(end_t - start_t, 1.0), as the fraction num/den
score_window(words, start_t, end_t) ==
    [num |-> SumScore(words, 1, start_t, end_t),
     den |-> Max(end_t - start_t, Scale)]

\* s > best_score on the quotients
Greater(s, best_score) == s.num * best_score.den > best_score.num * s.den

\* s > best_score replaced by s >= best_score
GreaterOrEqual(s, best_score) == s.num * best_score.den >= best_score.num * s.den

\* the comparison of line 125
Better(s, best_score) == Greater(s, best_score)

\* while t + dur <= total_dur
InRange(t, dur, total_dur) == t + dur <= total_dur

\* the while loop of lines 123-128 for one duration; acc is (best, best_score)
RECURSIVE ScanStarts(_, _, _, _, _)
ScanStarts(words, total_dur, dur, t, acc) ==
    IF InRange(t, dur, total_dur)
    THEN LET s == score_window(words, t, t + dur)
         IN  IF Better(s, acc.best_score)
             THEN ScanStarts(words, total_dur, dur, t + Scale,
                             [best |-> <<t, t + dur>>, best_score |-> s])
             ELSE ScanStarts(words, total_dur, dur, t + Scale, acc)
    ELSE acc

\* for dur in range(MIN_CLIP, MAX_CLIP + 1, 2)
RECURSIVE ScanDurs(_, _, _, _)
ScanDurs(words, total_dur, dur, acc) ==
    IF dur < MAX_CLIP + 1
    THEN ScanDurs(words, total_dur, dur + 2,
                  ScanStarts(words, total_dur, dur * Scale, 0, acc))
    ELSE acc

pick_best_window(words, total_dur) ==
    ScanDurs(words, total_dur, MIN_CLIP,
             [best |-> <<0, MIN_CLIP * Scale>>,
              best_score |-> [num |-> -2, den |-> Scale]]).best

(***************************************************************************)
(* ts_ass, on t in milliseconds.  t % 60 is exact in floating point, and   *)
(* the format {s:05.2f} rounds it to hundredths; when the decimal value    *)
(* lies exactly between two hundredths the float nearest to it lies on     *)
(* either side, which tieUp stands for.                                    *)
(***************************************************************************)
Digit(d) == <<"0", "1", "2", "3", "4", "5", "6", "7", "8", "9">>[d + 1]

\* {n:d}
RECURSIVE Dec(_)
Dec(n) == IF n < 10 THEN Digit(n) ELSE Dec(n \div 10) \o Digit(n % 10)

\* {n:02d}
Pad2(n) == IF n < 10 THEN "0" \o Dec(n) ELSE Dec(n)

\* the hundredths {s:.2f} prints for s = ms / 1000
RoundHundredths(ms, tieUp) ==
    IF ms % 10 > 5 \/ (ms % 10 = 5 /\ tieUp)
    THEN ms \div 10 + 1
    ELSE ms \div 10

\* the fields of the timestamp and its text; cs is the seconds field in
\* hundredths
ts_ass(t, tieUp) ==
    LET h == t \div 3600000
        m == (t % 3600000) \div 60000
        cs == RoundHundredths(t % 60000, tieUp)
    IN  [h |-> h, m |-> m, cs |-> cs,
         text |-> Dec(h) \o ":" \o Pad2(m) \o ":" \o Pad2(cs \div 100)
                  \o "." \o Pad2(cs % 100)]

NoTs == [h |-> 0, m |-> 0, cs |-> 0, text |-> ""]

(***************************************************************************)
(* build_ass: the caption events, before ts_ass formats their offsets.     *)
(* An event is [start, end, text] with offsets in ticks from clip_start.   *)
(***************************************************************************)

\* "".join(buf): the separator forgotten
RECURSIVE JoinNoSpace(_)
JoinNoSpace(buf) ==
    IF buf = <<>> THEN "" ELSE buf[1] \o JoinNoSpace(Tail(buf))

\* " ".join(buf)
RECURSIVE Join(_)
Join(buf) ==
    IF buf = <<>> THEN ""
    ELSE IF Len(buf) = 1 THEN buf[1]
    ELSE buf[1] \o " " \o Join(Tail(buf))

\* t0 = max(w["start"], clip_start) - clip_start
ClipT0(w, clip_start, clip_end) == Max(w.start, clip_start) - clip_start

\* t1 without the min against clip_end
ClipT1Unclamped(w, clip_start, clip_end) == w.end - clip_start

\* t1 = min(w["end"], clip_end) - clip_start
ClipT1(w, clip_start, clip_end) == Min(w.end, clip_end) - clip_start

\* the loop of lines 160-174; buf_start is <<>> for None, <<t>> otherwise
RECURSIVE AssLoop(_, _, _, _, _)
AssLoop(words, i, clip_start, clip_end, st) ==
    IF i > Len(words) THEN st
    ELSE LET w == words[i] IN
         IF Outside(w, clip_start, clip_end)
         THEN AssLoop(words, i + 1, clip_start, clip_end, st)
         ELSE LET t0 == ClipT0(w, clip_start, clip_end)
                  t1 == ClipT1(w, clip_start, clip_end)
                  bs == IF st.buf_start = <<>> THEN <<t0>> ELSE st.buf_start
                  buf == Append(st.buf, w.word)
              IN  IF Len(buf) >= MAX_WORDS_ON_SCREEN
                  THEN AssLoop(words, i + 1, clip_start, clip_end,
                               [lines |-> Append(st.lines,
                                                 [start |-> bs[1], end |-> t1,
                                                  text |-> Join(buf)]),
                                buf |-> <<>>, buf_start |-> <<>>])
                  ELSE AssLoop(words, i + 1, clip_start, clip_end,
                               [lines |-> st.lines, buf |-> buf, buf_start |-> bs])

build_ass(words, clip_start, clip_end) ==
    LET st == AssLoop(words, 1, clip_start, clip_end,
                      [lines |-> <<>>, buf |-> <<>>, buf_start |-> <<>>])
    IN  IF st.buf # <<>> /\ st.buf_start # <<>>
        THEN Append(st.lines, [start |-> st.buf_start[1],
                               end |-> clip_end - clip_start,
                               text |-> Join(st.buf)])
        ELSE st.lines

(***************************************************************************)
(* State                                                                   *)
(***************************************************************************)
VARIABLES
    pc,            \* pc[j]: the statement of upload_and_process job j is at
    fopen,         \* fopen[j]: write_progress holds the record open for writing
    progressFile,  \* progressFile[j]: storage/tmp/<j>.progress.json
    written,       \* written[j]: the percents write_progress was called with
    artifacts,     \* artifacts[j]: the input and temporary files of j that exist
    outputFile,    \* outputFile[j]: storage/output/<j>.mp4
    words,         \* words[j]: the local variable words
    total_dur,     \* total_dur[j]: the local variable total_dur
    clip,          \* clip[j]: <<clip_start, clip_end>>
    events,        \* events[j]: the Dialogue events written to <j>.ass
    response,      \* response[j]: what the upload request of j was answered
    stageLog,      \* stageLog[j]: the stages j has started, with their outcome
    resp,          \* the answer to the latest progress or download request
    fnWords,       \* input of the function under check: the words
    fnTotal,       \* input of pick_best_window: total_dur
    fnWindow,      \* result of pick_best_window, input of build_ass
    fnEvents,      \* result of build_ass
    fnDone,        \* the function under check has returned
    pollJob,       \* the job id a polling client asks the progress of
    polled,        \* the percents its requests were answered, repeats dropped
    tsT,           \* input of ts_ass: t in milliseconds
    tsTieUp,       \* whether the float nearest to t % 60 lies above a tie
    tsOut,         \* result of ts_ass
    tsDone         \* ts_ass has returned

pipeVars == <<pc, fopen, progressFile, written, artifacts, outputFile, words,
              total_dur, clip, events, response, stageLog, resp>>
fnVars == <<fnWords, fnTotal, fnWindow, fnEvents, fnDone>>
pollVars == <<pollJob, polled>>
tsVars == <<tsT, tsTieUp, tsOut, tsDone>>
vars == <<pipeVars, fnVars, pollVars, tsVars>>

NoFile == [exists |-> FALSE, data |-> <<>>]
NoResp == [kind |-> "none", job |-> "", status |-> 0, json |-> <<>>,
           file |-> "absent"]

\* the statements that call write_progress
WriteLabels == {"write5", "write20", "write45", "write60", "write75", "write100"}

\* 45 and 60 exchanged
PercentSwapped(l) ==
    CASE l = "write5" -> 5 [] l = "write20" -> 20 [] l = "write45" -> 60
      [] l = "write60" -> 45 [] l = "write75" -> 75 [] l = "write100" -> 100

\* 100 passed one call early, before the render
PercentEarly100(l) ==
    CASE l = "write5" -> 5 [] l = "write20" -> 20 [] l = "write45" -> 45
      [] l = "write60" -> 60 [] l = "write75" -> 100 [] l = "write100" -> 100

\* the percent each call of write_progress passes
Percent(l) ==
    CASE l = "write5" -> 5 [] l = "write20" -> 20 [] l = "write45" -> 45
      [] l = "write60" -> 60 [] l = "write75" -> 75 [] l = "write100" -> 100

\* the transcription call left out: the duration probe follows the audio
AfterWriteSkipping(l) ==
    CASE l = "write5" -> "extract" [] l = "write20" -> "probe"
      [] l = "write45" -> "probe" [] l = "write60" -> "trim"
      [] l = "write75" -> "render" [] l = "write100" -> "return"

\* the statement after each call of write_progress
AfterWrite(l) ==
    CASE l = "write5" -> "extract" [] l = "write20" -> "transcribe"
      [] l = "write45" -> "probe" [] l = "write60" -> "trim"
      [] l = "write75" -> "render" [] l = "write100" -> "return"

\* what the transcription endpoint can answer
PodWordLists ==
    { <<>>,
      <<[word |-> "hola", start |-> 1, end |-> 2 * Scale]>>,
      <<[word |-> "jaja", start |-> 2 * Scale, end |-> 3 * Scale],
        [word |-> "wow!", start |-> 25 * Scale, end |-> 26 * Scale],
        [word |-> "LOL!", start |-> 26 * Scale, end |-> 27 * Scale]>> }
PodReplies ==
    {[kind |-> "http_error", words |-> <<>>], [kind |-> "no_words", words |-> <<>>]}
    \cup {[kind |-> "words", words |-> ws] : ws \in PodWordLists}

\* what ffprobe can report
ProbeDurs == {(MIN_CLIP - 5) * Scale, (MIN_CLIP + 8) * Scale + 1}

InitPipe ==
    /\ pc = [j \in Jobs |-> "idle"]
    /\ fopen = [j \in Jobs |-> FALSE]
    /\ progressFile = [j \in Jobs |-> NoFile]
    /\ written = [j \in Jobs |-> <<>>]
    /\ artifacts = [j \in Jobs |-> {}]
    /\ outputFile = [j \in Jobs |-> "absent"]
    /\ words = [j \in Jobs |-> <<>>]
    /\ total_dur = [j \in Jobs |-> 0]
    /\ clip = [j \in Jobs |-> <<0, 0>>]
    /\ events = [j \in Jobs |-> <<>>]
    /\ response = [j \in Jobs |-> "none"]
    /\ stageLog = [j \in Jobs |-> <<>>]
    /\ resp = NoResp

InitFn ==
    /\ fnWords = <<>>
    /\ fnTotal = 0
    /\ fnWindow = <<0, 0>>
    /\ fnEvents = <<>>
    /\ fnDone = FALSE

InitPoll ==
    /\ pollJob = ""
    /\ polled = <<>>

InitTs ==
    /\ tsT = 0
    /\ tsTieUp = FALSE
    /\ tsOut = NoTs
    /\ tsDone = FALSE

Init == InitPipe /\ InitFn /\ InitPoll /\ InitTs

(***************************************************************************)
(* upload_and_process, one action per statement.  An exception leaves the  *)
(* handler at once: nothing catches it, and the framework answers 500.     *)
(***************************************************************************)
Goto(j, l) == pc' = [pc EXCEPT ![j] = l]

Raise(j) ==
    /\ Goto(j, "raised")
    /\ response' = [response EXCEPT ![j] = "error500"]

\* stage st of job j has been started and has ended as outcome says
Logged(j, st, outcome) ==
    stageLog' = [stageLog EXCEPT ![j] = Append(@, [stage |-> st, state |-> outcome])]

\* the stage that was running has ended as outcome says
Finished(j, outcome) ==
    stageLog' = [stageLog EXCEPT ![j][Len(stageLog[j])].state = outcome]

\* the id of a finished job drawn again
UploadReusingId(j) ==
    /\ pc[j] \in {"idle", "done"}
    /\ Goto(j, "write5")
    /\ artifacts' = [artifacts EXCEPT ![j] = @ \cup {"input"}]
    /\ UNCHANGED <<fopen, progressFile, written, outputFile, words, total_dur,
                   clip, events, response, stageLog, resp,
                   fnVars, pollVars, tsVars>>

\* lines 188-192: a fresh job id, the upload copied to storage/input
Upload(j) ==
    /\ pc[j] = "idle"
    /\ Goto(j, "write5")
    /\ artifacts' = [artifacts EXCEPT ![j] = @ \cup {"input"}]
    /\ UNCHANGED <<fopen, progressFile, written, outputFile, words, total_dur,
                   clip, events, response, stageLog, resp,
                   fnVars, pollVars, tsVars>>

\* one record file shared by all jobs instead of one per job id
WriteProgressOpenShared(j) ==
    /\ pc[j] \in WriteLabels
    /\ ~fopen[j]
    /\ fopen' = [fopen EXCEPT ![j] = TRUE]
    /\ progressFile' = [k \in Jobs |-> [exists |-> TRUE, data |-> <<>>]]
    /\ UNCHANGED <<pc, written, artifacts, outputFile, words, total_dur, clip,
                   events, response, stageLog, resp, fnVars, pollVars, tsVars>>

\* write_progress, line 61: open(..., "w") creates or truncates the record
WriteProgressOpen(j) ==
    /\ pc[j] \in WriteLabels
    /\ ~fopen[j]
    /\ fopen' = [fopen EXCEPT ![j] = TRUE]
    /\ progressFile' = [progressFile EXCEPT ![j] = [exists |-> TRUE, data |-> <<>>]]
    /\ UNCHANGED <<pc, written, artifacts, outputFile, words, total_dur, clip,
                   events, response, stageLog, resp, fnVars, pollVars, tsVars>>

\* write_progress, line 62 and the end of the with block: the buffered
\* json.dump reaches the file when it is closed
WriteProgressClose(j) ==
    /\ pc[j] \in WriteLabels
    /\ fopen[j]
    /\ fopen' = [fopen EXCEPT ![j] = FALSE]
    /\ progressFile' = [progressFile EXCEPT
                           ![j] = [exists |-> TRUE, data |-> <<Percent(pc[j])>>]]
    /\ written' = [written EXCEPT ![j] = Append(@, Percent(pc[j]))]
    /\ Goto(j, AfterWrite(pc[j]))
    /\ UNCHANGED <<artifacts, outputFile, words, total_dur, clip, events,
                   response, stageLog, resp, fnVars, pollVars, tsVars>>

\* lines 196-197: extract_audio, ffmpeg may exit non-zero
ExtractAudio(j) ==
    /\ pc[j] = "extract"
    /\ \E ok \in BOOLEAN :
          IF ok
          THEN /\ Goto(j, "write20")
               /\ artifacts' = [artifacts EXCEPT ![j] = @ \cup {"wav"}]
               /\ UNCHANGED response
               /\ Logged(j, "extract", "ok")
          ELSE /\ Raise(j)
               /\ Logged(j, "extract", "failed")
               /\ UNCHANGED artifacts
    /\ UNCHANGED <<fopen, progressFile, written, outputFile, words, total_dur,
                   clip, events, resp, fnVars, pollVars, tsVars>>

\* line 200: pod_transcribe_words raises on an HTTP error status and on a
\* reply without "words"
Transcribe(j) ==
    /\ pc[j] = "transcribe"
    /\ \E r \in PodReplies :
          IF r.kind = "words"
          THEN /\ Goto(j, "write45")
               /\ words' = [words EXCEPT ![j] = r.words]
               /\ UNCHANGED response
               /\ Logged(j, "transcribe", "ok")
          ELSE /\ Raise(j)
               /\ Logged(j, "transcribe", "failed")
               /\ UNCHANGED words
    /\ UNCHANGED <<fopen, progressFile, written, artifacts, outputFile,
                   total_dur, clip, events, resp, fnVars, pollVars, tsVars>>

\* line 203: ffprobe_duration
Probe(j) ==
    /\ pc[j] = "probe"
    /\ \/ \E d \in ProbeDurs :
             /\ total_dur' = [total_dur EXCEPT ![j] = d]
             /\ Goto(j, "select")
             /\ UNCHANGED response
             /\ Logged(j, "probe", "ok")
       \/ /\ Raise(j)
          /\ Logged(j, "probe", "failed")
          /\ UNCHANGED total_dur
    /\ UNCHANGED <<fopen, progressFile, written, artifacts, outputFile, words,
                   clip, events, resp, fnVars, pollVars, tsVars>>

\* line 204: clip_start, clip_end = pick_best_window(words, total_dur)
Select(j) ==
    /\ pc[j] = "select"
    /\ clip' = [clip EXCEPT ![j] = pick_best_window(words[j], total_dur[j])]
    /\ Goto(j, "write60")
    /\ Logged(j, "select", "ok")
    /\ UNCHANGED <<fopen, progressFile, written, artifacts, outputFile, words,
                   total_dur, events, response, resp,
                   fnVars, pollVars, tsVars>>

\* lines 207-215: the stream-copy trim
Trim(j) ==
    /\ pc[j] = "trim"
    /\ \E ok \in BOOLEAN :
          IF ok
          THEN /\ Goto(j, "build")
               /\ artifacts' = [artifacts EXCEPT ![j] = @ \cup {"clip"}]
               /\ UNCHANGED response
               /\ Logged(j, "trim", "ok")
          ELSE /\ Raise(j)
               /\ Logged(j, "trim", "failed")
               /\ UNCHANGED artifacts
    /\ UNCHANGED <<fopen, progressFile, written, outputFile, words, total_dur,
                   clip, events, resp, fnVars, pollVars, tsVars>>

\* lines 217-218: build_ass writes <j>.ass; opening the file can fail
Build(j) ==
    /\ pc[j] = "build"
    /\ \E ok \in BOOLEAN :
          IF ok
          THEN /\ Goto(j, "write75")
               /\ events' = [events EXCEPT
                               ![j] = build_ass(words[j], clip[j][1], clip[j][2])]
               /\ artifacts' = [artifacts EXCEPT ![j] = @ \cup {"ass"}]
               /\ UNCHANGED response
               /\ Logged(j, "build", "ok")
          ELSE /\ Raise(j)
               /\ Logged(j, "build", "failed")
               /\ UNCHANGED <<events, artifacts>>
    /\ UNCHANGED <<fopen, progressFile, written, outputFile, words, total_dur,
                   clip, resp, fnVars, pollVars, tsVars>>

\* lines 221-228, first half: ffmpeg either fails before it has opened its
\* output or creates storage/output/<j>.mp4 and starts to fill it
RenderStart(j) ==
    /\ pc[j] = "render"
    /\ \/ /\ Goto(j, "rendering")
          /\ outputFile' = [outputFile EXCEPT ![j] = "partial"]
          /\ UNCHANGED response
          /\ Logged(j, "render", "running")
       \/ /\ Raise(j)
          /\ Logged(j, "render", "failed")
          /\ UNCHANGED outputFile
    /\ UNCHANGED <<fopen, progressFile, written, artifacts, words, total_dur,
                   clip, events, resp, fnVars, pollVars, tsVars>>

\* lines 221-228, second half: ffmpeg finishes the file, or exits non-zero
\* and leaves what it has written
RenderEnd(j) ==
    /\ pc[j] = "rendering"
    /\ \/ /\ Goto(j, "write100")
          /\ outputFile' = [outputFile EXCEPT ![j] = "complete"]
          /\ UNCHANGED response
          /\ Finished(j, "ok")
       \/ /\ Raise(j)
          /\ Finished(j, "failed")
          /\ UNCHANGED outputFile
    /\ UNCHANGED <<fopen, progressFile, written, artifacts, words, total_dur,
                   clip, events, resp, fnVars, pollVars, tsVars>>

\* line 233: the handler returns and the request is answered with the job id
Return(j) ==
    /\ pc[j] = "return"
    /\ Goto(j, "done")
    /\ response' = [response EXCEPT ![j] = "job_id"]
    /\ UNCHANGED <<fopen, progressFile, written, artifacts, outputFile, words,
                   total_dur, clip, events, stageLog, resp,
                   fnVars, pollVars, tsVars>>

(***************************************************************************)
(* GET /progress/{job_id} and GET /download/{job_id}: plain functions, run *)
(* on the server's thread pool (or by another worker process) while an     *)
(* upload handler is anywhere in its pipeline; the id is the caller's.     *)
(***************************************************************************)

\* an empty record read as "no record": 0 instead of the json.load error
ProgressAnswerZeroOnEmpty(j) ==
    IF ~progressFile[j].exists \/ progressFile[j].data = <<>>
    THEN [kind |-> "progress", job |-> j, status |-> 200,
          json |-> <<0>>, file |-> "absent"]
    ELSE [kind |-> "progress", job |-> j, status |-> 200,
          json |-> progressFile[j].data, file |-> "absent"]

\* lines 236-241; json.load of an empty file raises, which answers 500
ProgressAnswer(j) ==
    IF ~progressFile[j].exists
    THEN [kind |-> "progress", job |-> j, status |-> 200,
          json |-> <<0>>, file |-> "absent"]
    ELSE IF progressFile[j].data = <<>>
    THEN [kind |-> "progress", job |-> j, status |-> 500,
          json |-> <<>>, file |-> "absent"]
    ELSE [kind |-> "progress", job |-> j, status |-> 200,
          json |-> progressFile[j].data, file |-> "absent"]

Progress(j) ==
    /\ resp' = ProgressAnswer(j)
    /\ UNCHANGED <<pc, fopen, progressFile, written, artifacts, outputFile,
                   words, total_dur, clip, events, response, stageLog,
                   fnVars, pollVars, tsVars>>

\* lines 244-248
Download(j) ==
    /\ resp' = IF outputFile[j] = "absent"
               THEN [kind |-> "download", job |-> j, status |-> 404,
                     json |-> <<>>, file |-> "absent"]
               ELSE [kind |-> "download", job |-> j, status |-> 200,
                     json |-> <<>>, file |-> outputFile[j]]
    /\ UNCHANGED <<pc, fopen, progressFile, written, artifacts, outputFile,
                   words, total_dur, clip, events, response, stageLog,
                   fnVars, pollVars, tsVars>>

Next ==
    \E j \in Jobs :
        \/ Upload(j)
        \/ WriteProgressOpen(j)
        \/ WriteProgressClose(j)
        \/ ExtractAudio(j)
        \/ Transcribe(j)
        \/ Probe(j)
        \/ Select(j)
        \/ Trim(j)
        \/ Build(j)
        \/ RenderStart(j)
        \/ RenderEnd(j)
        \/ Return(j)
        \/ Progress(j)
        \/ Download(j)

Spec == Init /\ [][Next]_vars

(***************************************************************************)
(* A client that polls GET /progress/{job_id} for one job id while the     *)
(* pipelines run; polled keeps the percents it was answered, in order,     *)
(* without the immediate repeats.                                          *)
(***************************************************************************)
InitPolling ==
    /\ InitPipe /\ InitFn /\ InitTs
    /\ pollJob \in Jobs
    /\ polled = <<>>

Poll ==
    LET a == ProgressAnswer(pollJob) IN
    /\ resp' = a
    /\ polled' = IF a.status = 200 /\ (polled = <<>> \/ Last(polled) # a.json[1])
                 THEN Append(polled, a.json[1])
                 ELSE polled
    /\ UNCHANGED <<pc, fopen, progressFile, written, artifacts, outputFile,
                   words, total_dur, clip, events, response, stageLog,
                   fnVars, pollJob, tsVars>>

NextPolling ==
    \/ \E j \in Jobs :
          \/ Upload(j)
          \/ WriteProgressOpen(j)
          \/ WriteProgressClose(j)
          \/ ExtractAudio(j)
          \/ Transcribe(j)
          \/ Probe(j)
          \/ Select(j)
          \/ Trim(j)
          \/ Build(j)
          \/ RenderStart(j)
          \/ RenderEnd(j)
          \/ Return(j)
    \/ Poll

SpecPolling == InitPolling /\ [][NextPolling]_vars

(***************************************************************************)
(* pick_best_window on its own: every ordered word list and media duration *)
(* within the bounds, then the call.                                       *)
(***************************************************************************)
SeqsUpTo(S, n) == UNION {[1..k -> S] : k \in 0..n}

OrderedByStart(ws) == \A i \in 1..(Len(ws) - 1) : ws[i].start <= ws[i + 1].start

SelWordSet ==
    {w \in [word : Vocabulary, start : SlotTimes, end : SlotTimes] :
        w.start <= w.end}
SelWordLists == {ws \in SeqsUpTo(SelWordSet, MaxSelWords) : OrderedByStart(ws)}

InitSelect ==
    /\ InitPipe /\ InitPoll /\ InitTs
    /\ fnWords \in SelWordLists
    /\ fnTotal \in TotalDurs
    /\ fnWindow = <<0, 0>>
    /\ fnEvents = <<>>
    /\ fnDone = FALSE

SelectCall ==
    /\ ~fnDone
    /\ fnWindow' = pick_best_window(fnWords, fnTotal)
    /\ fnDone' = TRUE
    /\ UNCHANGED <<pipeVars, fnWords, fnTotal, fnEvents, pollVars, tsVars>>

SpecSelect == InitSelect /\ [][SelectCall]_vars

(***************************************************************************)
(* build_ass on its own: every ordered word list with start <= end and     *)
(* every window within the bounds, then the call.  The i-th word of a list *)
(* carries the i-th text of CapTexts.                                      *)
(***************************************************************************)
CapTexts == <<"hi", "there", "friend", "hola", "jaja", "wow!">>
CapTimes == 0..MaxCapT
CapSpans == {sp \in [start : CapTimes, end : CapTimes] : sp.start <= sp.end}
CapWordLists ==
    {[i \in 1..Len(sps) |->
         [word |-> CapTexts[((i - 1) % Len(CapTexts)) + 1],
          start |-> sps[i].start, end |-> sps[i].end]] :
     sps \in {x \in SeqsUpTo(CapSpans, MaxCapWords) : OrderedByStart(x)}}
CapWindows == {win \in CapTimes \X CapTimes : win[1] <= win[2]}

InitCaption ==
    /\ InitPipe /\ InitPoll /\ InitTs
    /\ fnWords \in CapWordLists
    /\ fnTotal = 0
    /\ fnWindow \in CapWindows
    /\ fnEvents = <<>>
    /\ fnDone = FALSE

BuildCall ==
    /\ ~fnDone
    /\ fnEvents' = build_ass(fnWords, fnWindow[1], fnWindow[2])
    /\ fnDone' = TRUE
    /\ UNCHANGED <<pipeVars, fnWords, fnTotal, fnWindow, pollVars, tsVars>>

SpecCaption == InitCaption /\ [][BuildCall]_vars

(***************************************************************************)
(* Properties                                                              *)
(***************************************************************************)
NonDecreasing(sq) == \A i \in 1..(Len(sq) - 1) : sq[i] <= sq[i + 1]

\* a stored progress that is no percent: the failure sentinel
IsSentinel(data) == data # <<>> /\ data[1] \notin 0..100

\* C1: a job whose pipeline raised has the failure sentinel as its stored
\* progress, not the last checkpoint it reached.
C1_FailureStoresSentinel ==
    \A j \in Jobs :
        pc[j] = "raised" =>
            progressFile[j].exists /\ IsSentinel(progressFile[j].data)

\* C2: for every word list and every total duration the window returned by
\* pick_best_window has MIN_CLIP <= end - start <= MAX_CLIP, 0 <= start and
\* end <= total_dur.
C2_WindowWithinMedia ==
    fnDone =>
        /\ MIN_CLIP * Scale <= fnWindow[2] - fnWindow[1]
        /\ fnWindow[2] - fnWindow[1] <= MAX_CLIP * Scale
        /\ 0 <= fnWindow[1]
        /\ fnWindow[2] <= fnTotal

\* the statements after the window selection of line 204
PastSelect == {"write60", "trim", "build", "write75", "render", "rendering",
               "write100", "return", "done"}

\* C3: when the media is shorter than MIN_CLIP the job fails at the window
\* selection: it never goes on to the trim and caption stages, and no
\* window that ends past the media is handed to them.
C3_ShortMediaFailsJob ==
    \A j \in Jobs :
        pc[j] \in PastSelect =>
            /\ total_dur[j] >= MIN_CLIP * Scale
            /\ clip[j][2] <= total_dur[j]

\* C4: the upload request is answered with the job id before the pipeline
\* of the job has made its final progress write: once 100 has been
\* written, the request has already been answered.
C4_AnsweredBeforeFinalWrite ==
    \A j \in Jobs :
        (written[j] # <<>> /\ Last(written[j]) = 100) => response[j] = "job_id"

\* C5: for a job that completes successfully, the percents written to its
\* progress record are non-decreasing and the last one is exactly 100.
C5_ProgressMonotoneTo100 ==
    \A j \in Jobs :
        pc[j] \in {"return", "done"} =>
            /\ NonDecreasing(written[j])
            /\ written[j] # <<>>
            /\ Last(written[j]) = 100
            /\ progressFile[j] = [exists |-> TRUE, data |-> <<100>>]

C5_Witness ==
    \E j \in Jobs : pc[j] = "done" /\ written[j] = <<5, 20, 45, 60, 75, 100>>

\* C6: the download endpoint never answers with an output file for a job
\* that fails, whether the request comes before or after the failure.
C6_NoOutputForFailedJob ==
    ~(resp.kind = "download" /\ resp.status = 200 /\ pc[resp.job] = "raised")

\* C7: a download request that runs before the job has succeeded (progress
\* 100 stored) is answered 404.
C7_DownloadOnlyAfterSuccess ==
    [][\A j \in Jobs :
          (Download(j) /\ progressFile[j].data # <<100>>) => resp'.status = 404]_vars

\* C8: a progress request is always answered with a numeric percent: 0 when
\* the job has no record, otherwise a value the pipeline has written.
C8_ProgressAlwaysNumeric ==
    resp.kind = "progress" =>
        /\ resp.status = 200
        /\ resp.json # <<>>
        /\ \/ resp.json[1] = 0
           \/ \E i \in 1..Len(written[resp.job]) :
                 written[resp.job][i] = resp.json[1]

\* the candidate windows of pick_best_window, as a set
CandidateDurs ==
    {d * Scale : d \in {x \in MIN_CLIP..MAX_CLIP : (x - MIN_CLIP) % 2 = 0}}
Candidates(total) ==
    {c \in {<<k * Scale, k * Scale + d>> :
                k \in 0..(total \div Scale), d \in CandidateDurs} :
        c[2] <= total}
ScoreOf(ws, win) == score_window(ws, win[1], win[2])
SameScore(a, b) == a.num * b.den = b.num * a.den
\* a comes no later than b in the order durations ascending, then starts
Precedes(a, b) ==
    \/ a[2] - a[1] < b[2] - b[1]
    \/ a[2] - a[1] = b[2] - b[1] /\ a[1] <= b[1]

\* C9: the window returned by pick_best_window is the first maximum-score
\* candidate in the order durations ascending, then starts ascending: no
\* candidate scores more, and a candidate of equal score has a longer
\* duration, or the same duration and a start that is not smaller.
C9_FirstMaximumWins ==
    (fnDone /\ Candidates(fnTotal) # {}) =>
        /\ fnWindow \in Candidates(fnTotal)
        /\ \A c \in Candidates(fnTotal) :
              /\ ~Greater(ScoreOf(fnWords, c), ScoreOf(fnWords, fnWindow))
              /\ SameScore(ScoreOf(fnWords, c), ScoreOf(fnWords, fnWindow))
                    => Precedes(fnWindow, c)

C9_Witness ==
    /\ fnDone
    /\ ScoreOf(fnWords, fnWindow).num > 0
    /\ \E c \in Candidates(fnTotal) :
          /\ c[1] > fnWindow[1]
          /\ c[2] - c[1] = fnWindow[2] - fnWindow[1]
          /\ SameScore(ScoreOf(fnWords, c), ScoreOf(fnWords, fnWindow))
    /\ \E c \in Candidates(fnTotal) :
          /\ c[2] - c[1] > fnWindow[2] - fnWindow[1]
          /\ SameScore(ScoreOf(fnWords, c), ScoreOf(fnWords, fnWindow))

\* C10: every event of build_ass has 0 <= start <= end <= clip_end -
\* clip_start, and the events come in non-decreasing order of start.
C10_EventsWithinWindow ==
    fnDone =>
        /\ \A i \in 1..Len(fnEvents) :
              /\ 0 <= fnEvents[i].start
              /\ fnEvents[i].start <= fnEvents[i].end
              /\ fnEvents[i].end <= fnWindow[2] - fnWindow[1]
        /\ \A i \in 1..(Len(fnEvents) - 1) :
              fnEvents[i].start <= fnEvents[i + 1].start

C10_Witness ==
    /\ fnDone
    /\ Len(fnEvents) = 2
    /\ fnEvents[1].start < fnEvents[2].start
    /\ \E i \in 1..Len(fnWords) :
          /\ ~Outside(fnWords[i], fnWindow[1], fnWindow[2])
          /\ fnWords[i].start < fnWindow[1]
    /\ \E i \in 1..Len(fnWords) :
          /\ ~Outside(fnWords[i], fnWindow[1], fnWindow[2])
          /\ fnWords[i].end > fnWindow[2]
    /\ \E i \in 1..Len(fnWords) : Outside(fnWords[i], fnWindow[1], fnWindow[2])

\* the overlap test of the design: word.end >= start and word.start <= end
Overlaps(w, win) == w.end >= win[1] /\ w.start <= win[2]
OverlappingWords(ws, win) == SelectSeq(ws, LAMBDA w : Overlaps(w, win))

\* C11: whenever a word overlaps the window, the last event of build_ass
\* ends at clip_end - clip_start, whatever the number of overlapping words.
C11_LastEventEndsWithClip ==
    (fnDone /\ OverlappingWords(fnWords, fnWindow) # <<>>) =>
        /\ fnEvents # <<>>
        /\ Last(fnEvents).end = fnWindow[2] - fnWindow[1]

\* C12: for words ordered by start with start <= end, overlapping in time
\* or not, consecutive events of build_ass do not overlap: each ends no
\* later than the next one starts.
C12_EventsDoNotOverlap ==
    fnDone =>
        \A i \in 1..(Len(fnEvents) - 1) : fnEvents[i].end <= fnEvents[i + 1].start

\* the texts of ws[a..b] separated by single spaces
RECURSIVE SpaceJoined(_, _, _)
SpaceJoined(ws, a, b) ==
    IF a >= b THEN ws[a].word
    ELSE ws[a].word \o " " \o SpaceJoined(ws, a + 1, b)

\* the events of ws under win are one per group of MAX_WORDS_ON_SCREEN
\* consecutive overlapping words, the last group possibly shorter
GroupedAs(evs, ws, win) ==
    LET ov == OverlappingWords(ws, win)
        n == Len(ov)
        g == MAX_WORDS_ON_SCREEN
    IN  /\ Len(evs) = (n + g - 1) \div g
        /\ \A k \in 1..Len(evs) :
              LET first == g * (k - 1) + 1
                  last == Min(g * k, n)
              IN  /\ evs[k].text = SpaceJoined(ov, first, last)
                  /\ evs[k].start = Max(ov[first].start, win[1]) - win[1]
                  /\ last = g * k =>
                        evs[k].end = Min(ov[last].end, win[2]) - win[1]

\* C14: build_ass emits one event per group of MAX_WORDS_ON_SCREEN
\* consecutive overlapping words plus at most one shorter final group; the
\* text of an event is its group's words joined by single spaces, every
\* overlapping word is in exactly one event and no other word in any; a
\* full group's event runs from its first word's clipped start to its last
\* word's clipped end.  In tenths of a second, hi[0,5] there[5,10]
\* friend[10,16] under the window [0,20] give (0,10,"hi there") and
\* (10,20,"friend").
C14_EventsAreWordGroups ==
    /\ fnDone => GroupedAs(fnEvents, fnWords, fnWindow)
    /\ build_ass(<<[word |-> "hi", start |-> 0, end |-> 5],
                   [word |-> "there", start |-> 5, end |-> 10],
                   [word |-> "friend", start |-> 10, end |-> 16]>>, 0, 20)
         = <<[start |-> 0, end |-> 10, text |-> "hi there"],
             [start |-> 10, end |-> 20, text |-> "friend"]>>

C14_Witness ==
    /\ fnDone
    /\ Len(fnEvents) = 2
    /\ Len(OverlappingWords(fnWords, fnWindow)) = 3
    /\ Len(fnWords) = 4
    /\ Outside(fnWords[2], fnWindow[1], fnWindow[2])

\* the score of the design: 1.0 plus the lexical bonuses for every word
\* that overlaps the window, over max(d, 1.0)
RECURSIVE TotalPoints(_)
TotalPoints(ws) == IF ws = <<>> THEN 0 ELSE WordScore(ws[1]) + TotalPoints(Tail(ws))
DesignScore(ws, win) ==
    [num |-> TotalPoints(OverlappingWords(ws, win)),
     den |-> Max(win[2] - win[1], Scale)]

\* C13: when total_dur >= MIN_CLIP the window returned by pick_best_window
\* is one of the candidates [t, t+d], d in MIN_CLIP, MIN_CLIP+2, ... up to
\* MAX_CLIP, t in 0, 1, 2, ... with t + d <= total_dur, and no candidate
\* has a strictly greater score.
C13_ReturnedWindowIsMaximal ==
    (fnDone /\ fnTotal >= MIN_CLIP * Scale) =>
        /\ fnWindow \in Candidates(fnTotal)
        /\ \A c \in Candidates(fnTotal) :
              ~Greater(DesignScore(fnWords, c), DesignScore(fnWords, fnWindow))

C13_Witness ==
    /\ fnDone
    /\ fnTotal >= MIN_CLIP * Scale
    /\ fnWindow[2] - fnWindow[1] > MIN_CLIP * Scale
    /\ Len(OverlappingWords(fnWords, fnWindow)) = 2
    /\ \E c \in Candidates(fnTotal) :
          /\ Greater(DesignScore(fnWords, fnWindow), DesignScore(fnWords, c))
          /\ DesignScore(fnWords, c).num > 0

\* C16: a stored progress of 100 means the output file exists and is
\* complete, and 100 is not written (the record is not even opened for it)
\* before the render has finished.
C16_HundredMeansRendered ==
    \A j \in Jobs :
        /\ progressFile[j].data = <<100>> => outputFile[j] = "complete"
        /\ (written[j] # <<>> /\ Last(written[j]) = 100) => outputFile[j] = "complete"
        /\ pc[j] = "write100" => outputFile[j] = "complete"

C16_Witness ==
    \E j \in Jobs :
        /\ progressFile[j].data = <<100>>
        /\ outputFile[j] = "complete"
        /\ \E k \in Jobs : outputFile[k] = "partial" /\ progressFile[k].data = <<75>>

\* a terminal value of the record: 100 or the failure sentinel
Terminal(f) == f.data = <<100>> \/ IsSentinel(f.data)

\* C17: once the record of a job holds a terminal value, no later step
\* changes it.
C17_TerminalRecordIsFinal ==
    [][\A j \in Jobs :
          Terminal(progressFile[j]) =>
              /\ progressFile'[j] = progressFile[j]
              /\ written'[j] = written[j]
              /\ fopen'[j] = fopen[j]]_vars

C17_Witness ==
    \E j \in Jobs :
        /\ Terminal(progressFile[j])
        /\ pc[j] = "done"
        /\ \E k \in Jobs : pc[k] \in WriteLabels /\ fopen[k]

\* job j is the one a step executes
Executes(j) ==
    pc'[j] # pc[j] \/ fopen'[j] # fopen[j]

\* C19: a step of the pipeline of one job changes only that job's progress
\* record and that job's input, temporary and output files; those of every
\* other job are left as they were.
C19_OnlyOwnFilesWritten ==
    [][\A j \in Jobs : \A k \in Jobs \ {j} :
          Executes(j) =>
              /\ ~Executes(k)
              /\ progressFile'[k] = progressFile[k]
              /\ written'[k] = written[k]
              /\ artifacts'[k] = artifacts[k]
              /\ outputFile'[k] = outputFile[k]
              /\ events'[k] = events[k]]_vars

C19_Witness ==
    \E j \in Jobs : \E k \in Jobs \ {j} :
        /\ pc[j] = "rendering"
        /\ pc[k] = "write45" /\ fopen[k]
        /\ progressFile[j].data = <<75>>
        /\ artifacts[k] = {"input", "wav"}

\* the stages of upload_and_process in the order of the design
StageOrder == <<"extract", "transcribe", "probe", "select", "trim", "build", "render">>

\* stage st of job j has completed successfully
StageOk(j, st) ==
    \E i \in 1..Len(stageLog[j]) : stageLog[j][i] = [stage |-> st, state |-> "ok"]

\* the stage whose completion each checkpoint reports
StageBefore(l) ==
    CASE l = "write20" -> "extract" [] l = "write45" -> "transcribe"
      [] l = "write60" -> "select" [] l = "write75" -> "build"
      [] l = "write100" -> "render"

\* C18: within a job the stages run in the order extraction, transcription,
\* duration probe and window selection, trim, caption build, render; a
\* stage starts only after the one before it has completed successfully,
\* so nothing runs after a failed stage; and each of the checkpoints 20,
\* 45, 60, 75, 100 is written only after its stage has completed.
C18_StagesInOrder ==
    \A j \in Jobs :
        /\ Len(stageLog[j]) <= Len(StageOrder)
        /\ \A i \in 1..Len(stageLog[j]) :
              /\ stageLog[j][i].stage = StageOrder[i]
              /\ i < Len(stageLog[j]) => stageLog[j][i].state = "ok"
        /\ \A l \in WriteLabels \ {"write5"} :
              (pc[j] = l \/ \E i \in 1..Len(written[j]) : written[j][i] = Percent(l))
                  => StageOk(j, StageBefore(l))
        /\ pc[j] = "raised" =>
              (stageLog[j] # <<>> /\ Last(stageLog[j]).state = "failed")

C18_Witness ==
    \E j \in Jobs : \E k \in Jobs \ {j} :
        /\ Len(stageLog[j]) = Len(StageOrder)
        /\ Last(stageLog[j]).state = "ok"
        /\ written[j] = <<5, 20, 45, 60, 75, 100>>
        /\ pc[k] = "raised"
        /\ Last(stageLog[k]) = [stage |-> "trim", state |-> "failed"]

\* C15: the percents answered to successive progress requests for one job
\* id never decrease, except for a step to the failure sentinel.
C15_PolledNeverDecreases ==
    \A i \in 1..(Len(polled) - 1) :
        polled[i] <= polled[i + 1] \/ IsSentinel(<<polled[i + 1]>>)

C15_Witness ==
    /\ Len(polled) >= 4
    /\ polled[1] = 0
    /\ Last(polled) = 100
    /\ resp.status = 200

(***************************************************************************)
(* ts_ass on its own: times around the second, minute and hour boundaries, *)
(* then the call.                                                          *)
(***************************************************************************)
TsTimes ==
    {h * 3600000 + m * 60000 + sec * 1000 + ms :
        h \in 0..MaxTsHours, m \in {0, 1, 59}, sec \in {0, 30, 59},
        ms \in {0, 4, 5, 6, 994, 995, 996, 999}}

InitTsCall ==
    /\ InitPipe /\ InitFn /\ InitPoll
    /\ tsT \in TsTimes
    /\ tsTieUp \in BOOLEAN
    /\ tsOut = NoTs
    /\ tsDone = FALSE

TsCall ==
    /\ ~tsDone
    /\ tsOut' = ts_ass(tsT, tsTieUp)
    /\ tsDone' = TRUE
    /\ UNCHANGED <<pipeVars, fnVars, pollVars, tsT, tsTieUp>>

SpecTs == InitTsCall /\ [][TsCall]_vars

\* C20: for every t >= 0 in milliseconds ts_ass(t) is a valid H:MM:SS.ss
\* timestamp: minutes in 0..59, seconds field in 00.00..59.99, and the
\* timestamp denotes t rounded to the nearest hundredth of a second.
C20_TimestampIsValid ==
    tsDone =>
        /\ tsOut.m \in 0..59
        /\ tsOut.cs \in 0..5999
        /\ LET hundredths == tsOut.h * 360000 + tsOut.m * 6000 + tsOut.cs
           IN  /\ 10 * hundredths - tsT <= 5
               /\ tsT - 10 * hundredths <= 5

====
